---- MODULE Spec2Model ----
(***************************************************************************)
(* Model of pushplus_schedule.py: the daily schedule resolver              *)
(* (get_current_week, get_daily_schedule), the message formatter and main. *)
(*                                                                         *)
(* A Python str is a sequence of one-character tokens.  The tokens "zhou", *)
(* "yi", "er", "san", "si", "wu", "liu", "ri" each stand for ONE CJK       *)
(* character of the source (the week character U+5468 and the seven        *)
(* day-name characters); every other token is the ASCII character itself.  *)
(***************************************************************************)
EXTENDS Integers, Sequences, FiniteSets, TLC

(***************************************************************************)
(* Python str primitives used by the program.                              *)
(***************************************************************************)
Digits == {"0", "1", "2", "3", "4", "5", "6", "7", "8", "9"}

DigitVal(c) ==
  CASE c = "0" -> 0 [] c = "1" -> 1 [] c = "2" -> 2 [] c = "3" -> 3
    [] c = "4" -> 4 [] c = "5" -> 5 [] c = "6" -> 6 [] c = "7" -> 7
    [] c = "8" -> 8 [] c = "9" -> 9

Whitespace == {" "}

Chars(s) == {s[i] : i \in 1..Len(s)}

\* s[a:b] with 1-based inclusive bounds
Slice(s, a, b) == [i \in 1..(b - a + 1) |-> s[a + i - 1]]

\* str.strip()
Strip(s) ==
  LET keep == {i \in 1..Len(s) : s[i] \notin Whitespace}
  IN  IF keep = {} THEN <<>>
      ELSE LET lo == CHOOSE i \in keep : \A j \in keep : i <= j
               hi == CHOOSE i \in keep : \A j \in keep : i >= j
           IN  Slice(s, lo, hi)

RECURSIVE Remove(_, _)
\* str.replace(pat, ""): leftmost non-overlapping occurrences are dropped
Remove(s, pat) ==
  IF Len(s) < Len(pat) THEN s
  ELSE IF Slice(s, 1, Len(pat)) = pat
       THEN Remove(Slice(s, Len(pat) + 1, Len(s)), pat)
       ELSE <<s[1]>> \o Remove(Tail(s), pat)

RECURSIVE Split(_, _)
\* str.split(sep) for a one-character separator: always at least one piece
Split(s, sep) ==
  LET hits == {i \in 1..Len(s) : s[i] = sep}
  IN  IF hits = {} THEN <<s>>
      ELSE LET i == CHOOSE h \in hits : \A k \in hits : h <= k
           IN  <<Slice(s, 1, i - 1)>> \o Split(Slice(s, i + 1, Len(s)), sep)

RECURSIVE DecValue(_)
\* value of a non-empty run of decimal digits
DecValue(ds) ==
  IF Len(ds) = 0 THEN 0
  ELSE 10 * DecValue(Slice(ds, 1, Len(ds) - 1)) + DigitVal(ds[Len(ds)])

Bad == [ok |-> FALSE, v |-> 0]
Good(n) == [ok |-> TRUE, v |-> n]

\* int(s): surrounding whitespace is ignored, one optional sign, then digits;
\* anything else raises ValueError (ok = FALSE)
PyInt(s) ==
  LET t    == Strip(s)
      sgn  == Len(t) > 0 /\ t[1] \in {"+", "-"}
      body == IF sgn THEN Tail(t) ELSE t
  IN  IF Len(body) = 0 \/ ~(Chars(body) \subseteq Digits) THEN Bad
      ELSE IF sgn /\ t[1] = "-" THEN Good(0 - DecValue(body))
      ELSE Good(DecValue(body))

(***************************************************************************)
(* Active weeks of one course, get_daily_schedule lines 198-216.           *)
(***************************************************************************)
\* line 198: .replace("(zhou)", "").replace("zhou", "").strip()
CleanWeeks(raw) == Strip(Remove(Remove(raw, <<"(", "zhou", ")">>), <<"zhou">>))

\* range(start, end): the last week left out
WeekRange_exclusive(start, end) == [i \in 1..(end - start) |-> start + i - 1]

\* line 209: range(start, end + 1), as the list that extend() appends
WeekRange(start, end) == [i \in 1..(end - start + 1) |-> start + i - 1]

\* lines 204-216: what one comma-separated part appends to active_weeks
PartWeeks(rawpart) ==
  LET part == Strip(rawpart)
  IN  IF "-" \in Chars(part)
      THEN LET pieces == Split(part, "-")
           IN  IF Len(pieces) # 2 THEN <<>>          \* unpacking raises ValueError
               ELSE LET start == PyInt(pieces[1])
                        end   == PyInt(pieces[2])
                    IN  IF start.ok /\ end.ok THEN WeekRange(start.v, end.v)
                        ELSE <<>>
      ELSE LET n == PyInt(part)
           IN  IF n.ok THEN <<n.v>> ELSE <<>>

RECURSIVE ConcatParts(_)
ConcatParts(parts) ==
  IF Len(parts) = 0 THEN <<>>
  ELSE PartWeeks(Head(parts)) \o ConcatParts(Tail(parts))

\* lines 198-216: the list active_weeks built for a weeks string
\* (an empty cleaned string is skipped at line 199: no week matches)
ActiveWeeks(raw) ==
  LET weeks_str == CleanWeeks(raw)
  IN  IF Len(weeks_str) = 0 THEN <<>>
      ELSE ConcatParts(Split(weeks_str, ","))

\* line 218: current_week in active_weeks
WeekIsActive(week, raw) == week \in Chars(ActiveWeeks(raw))

(***************************************************************************)
(* datetime: strptime, ordinals, weekday, strftime.                        *)
(***************************************************************************)
IsLeap(y) == (y % 4 = 0) /\ ((y % 100 # 0) \/ (y % 400 = 0))

DaysInMonth(y, m) ==
  CASE m \in {1, 3, 5, 7, 8, 10, 12} -> 31
    [] m \in {4, 6, 9, 11} -> 30
    [] m = 2 -> IF IsLeap(y) THEN 29 ELSE 28

RECURSIVE DaysBeforeMonth(_, _)
DaysBeforeMonth(y, m) ==
  IF m = 1 THEN 0 ELSE DaysBeforeMonth(y, m - 1) + DaysInMonth(y, m - 1)

DaysBeforeYear(y) ==
  365 * (y - 1) + ((y - 1) \div 4) - ((y - 1) \div 100) + ((y - 1) \div 400)

\* date.toordinal(): 0001-01-01 is day 1
ToOrdinal(y, m, d) == DaysBeforeYear(y) + DaysBeforeMonth(y, m) + d

\* date.fromordinal(), as year, month, day
FromOrdinal(n) ==
  LET y   == CHOOSE yy \in (n \div 366)..((n \div 365) + 1) :
               DaysBeforeYear(yy) < n /\ n <= DaysBeforeYear(yy + 1)
      doy == n - DaysBeforeYear(y)
      m   == CHOOSE mm \in 1..12 :
               /\ DaysBeforeMonth(y, mm) < doy
               /\ doy <= DaysBeforeMonth(y, mm) + DaysInMonth(y, mm)
  IN  [y |-> y, m |-> m, d |-> doy - DaysBeforeMonth(y, m)]

\* date.isoweekday(): Monday is 1, Sunday is 7
IsoWeekday(n) == ((n + 6) % 7) + 1

\* a field of one or two digits, as the %m, %d, %H and %M directives take it
IsShortNumber(f) == Len(f) \in {1, 2} /\ Chars(f) \subseteq Digits

\* datetime.strptime(s, "%Y-%m-%d").date(): the ordinal, or ValueError
StrptimeDate(s) ==
  LET f == Split(s, "-")
  IN  IF Len(f) # 3 THEN Bad
      ELSE IF ~(Len(f[1]) = 4 /\ Chars(f[1]) \subseteq Digits) THEN Bad
      ELSE IF ~IsShortNumber(f[2]) THEN Bad
      ELSE IF ~(IsShortNumber(f[3])
                \/ (Len(f[3]) = 2 /\ f[3][1] = " " /\ f[3][2] \in Digits)) THEN Bad
      ELSE LET y == DecValue(f[1])
               m == DecValue(f[2])
               d == DecValue(IF f[3][1] = " " THEN Tail(f[3]) ELSE f[3])
           IN  IF y < 1 \/ m < 1 \/ m > 12 \/ d < 1 THEN Bad
               ELSE IF d > DaysInMonth(y, m) THEN Bad
               ELSE Good(ToOrdinal(y, m, d))

\* datetime.strptime(s, "%H:%M").time(): minutes since midnight, or ValueError
StrptimeTime(s) ==
  LET f == Split(s, ":")
  IN  IF Len(f) # 2 THEN Bad
      ELSE IF ~IsShortNumber(f[1]) \/ ~IsShortNumber(f[2]) THEN Bad
      ELSE IF DecValue(f[1]) > 23 \/ DecValue(f[2]) > 59 THEN Bad
      ELSE Good(60 * DecValue(f[1]) + DecValue(f[2]))

DigitChar(d) ==
  CASE d = 0 -> "0" [] d = 1 -> "1" [] d = 2 -> "2" [] d = 3 -> "3"
    [] d = 4 -> "4" [] d = 5 -> "5" [] d = 6 -> "6" [] d = 7 -> "7"
    [] d = 8 -> "8" [] d = 9 -> "9"

Pad2(n) == <<DigitChar((n \div 10) % 10), DigitChar(n % 10)>>

\* date.strftime('%Y-%m-%d')
StrftimeDate(n) ==
  LET ymd == FromOrdinal(n)
  IN  Pad2(ymd.y \div 100) \o Pad2(ymd.y % 100) \o <<"-">> \o Pad2(ymd.m)
        \o <<"-">> \o Pad2(ymd.d)

(***************************************************************************)
(* JSON values of timetable.json and dict.get.                             *)
(***************************************************************************)
Missing == [t |-> "missing", s |-> <<>>]   \* the key is absent
Null    == [t |-> "null", s |-> <<>>]      \* JSON null, Python None
Number  == [t |-> "num", s |-> <<>>]       \* a non-zero JSON number
Str(s)  == [t |-> "str", s |-> s]

\* dict.get(key, default): only an absent key takes the default
Get(v, default) == IF v.t = "missing" THEN default ELSE v

\* dict.get(key): an absent key gives None
GetOrNone(v) == Get(v, Null)

\* truth value of a Python object
Truthy(v) == v.t = "num" \/ (v.t = "str" /\ Len(v.s) > 0)

(***************************************************************************)
(* get_current_week, lines 113-131.                                        *)
(***************************************************************************)
\* days_since_start // 7: weeks counted from 0
WeekOfDays_noOffset(days_since_start) == days_since_start \div 7

\* line 130: (days_since_start // 7) + 1
WeekOfDays(days_since_start) == (days_since_start \div 7) + 1

\* lines 118-131, with `day` the value date.today() returns at line 124
GetCurrentWeek(start_date_str, day) ==
  LET start_date == StrptimeDate(start_date_str)
  IN  IF ~start_date.ok THEN 0
      ELSE IF day < start_date.v THEN 0
      ELSE WeekOfDays(day - start_date.v)

(***************************************************************************)
(* get_daily_schedule, lines 133-239.                                      *)
(***************************************************************************)
\* lines 167-171: day_map.get(today.isoweekday(), ...)
DayName(n) ==
  LET k == IsoWeekday(n)
  IN  <<"zhou">> \o
      (CASE k = 1 -> <<"yi">> [] k = 2 -> <<"er">> [] k = 3 -> <<"san">>
         [] k = 4 -> <<"si">> [] k = 5 -> <<"wu">> [] k = 6 -> <<"liu">>
         [] k = 7 -> <<"ri">>)

NoDate == [present |-> FALSE, v |-> 0]
ADate(n) == [present |-> TRUE, v |-> n]

\* the two tests of lines 174 and 184 in the other order
SemesterStatus_endedFirst(day, start_date, end_date) ==
  IF end_date.present /\ day > end_date.v THEN "ended"
  ELSE IF day < start_date THEN "not_started"
  ELSE "active"

\* lines 174-192: the semester status, first match wins
SemesterStatus(day, start_date, end_date) ==
  IF day < start_date THEN "not_started"
  ELSE IF end_date.present /\ day > end_date.v THEN "ended"
  ELSE "active"

\* lines 154-161: "error" (a returned error value), "TypeError" (raised by
\* strptime on a value that is not a str) or "ok"
CheckDates(start_v, end_v) ==
  IF ~Truthy(start_v) THEN "error"
  ELSE IF start_v.t # "str" THEN "TypeError"
  ELSE IF ~StrptimeDate(start_v.s).ok THEN "error"
  ELSE IF ~Truthy(end_v) THEN "ok"
  ELSE IF end_v.t # "str" THEN "TypeError"
  ELSE IF ~StrptimeDate(end_v.s).ok THEN "error"
  ELSE "ok"

\* line 158: semester_start_date
SemesterStartDate(info) == StrptimeDate(GetOrNone(info.start_date).s).v

\* line 159: semester_end_date, None when end_date is absent or empty
SemesterEndDate(info) ==
  LET e == GetOrNone(info.end_date)
  IN  IF Truthy(e) THEN ADate(StrptimeDate(e.s).v) ELSE NoDate

\* the day test of line 197 left out
DayMatches_any(course, day_name) == TRUE

\* line 197: course.get("day") == today_day_name
DayMatches(course, day_name) ==
  LET d == GetOrNone(course.day) IN d.t = "str" /\ d.s = day_name

\* line 198: course.get("weeks", "")
WeeksField(course) == Get(course.weeks, Str(<<>>))

\* lines 196-219: the loop raises AttributeError at the first course of the
\* day whose weeks value has no replace()
LoopRaises(courses, day_name) ==
  \E i \in 1..Len(courses) :
    DayMatches(courses[i], day_name) /\ WeeksField(courses[i]).t # "str"

\* lines 195-219: daily_courses, in input order
DailyCourses(courses, day_name, week) ==
  LET due(c) == DayMatches(c, day_name) /\ WeekIsActive(week, WeeksField(c).s)
  IN  SelectSeq(courses, due)

LastMinute == 1439

\* lines 225-228: the key of a time string; 23:59 when it does not parse
StartTimeKey(time_str) ==
  LET t == StrptimeTime(Strip(Split(time_str, "-")[1]))
  IN  IF t.ok THEN t.v ELSE LastMinute

\* line 223: course_item.get("time", "23:59-23:59")
TimeField(course) ==
  Get(course.time, Str(<<"2", "3", ":", "5", "9", "-", "2", "3", ":", "5", "9">>))

\* lines 222-228: get_start_time_key; split() on a value that is not a str
\* raises AttributeError, which the except clause does not catch
GetStartTimeKey(course) ==
  LET v == TimeField(course)
  IN  IF v.t # "str" THEN Bad ELSE Good(StartTimeKey(v.s))

RECURSIVE InsertByKey(_, _)
\* stable insertion: c goes after every element whose key is not greater
InsertByKey(sorted, c) ==
  IF Len(sorted) = 0 THEN <<c>>
  ELSE IF GetStartTimeKey(sorted[Len(sorted)]).v <= GetStartTimeKey(c).v
       THEN Append(sorted, c)
       ELSE Append(InsertByKey(SubSeq(sorted, 1, Len(sorted) - 1), c),
                   sorted[Len(sorted)])

RECURSIVE SortedUpTo(_, _)
SortedUpTo(list, n) ==
  IF n = 0 THEN <<>> ELSE InsertByKey(SortedUpTo(list, n - 1), list[n])

\* line 230: daily_courses.sort(key=get_start_time_key), a stable sort
SortByStartTime(list) == SortedUpTo(list, Len(list))

\* line 230: sort() calls the key on every element and lets it raise
SortRaises(list) == \E i \in 1..Len(list) : ~GetStartTimeKey(list[i]).ok

\* the dict returned by get_daily_schedule: `keys` are the keys it has
NoSchedule ==
  [keys |-> {}, date |-> <<>>, day |-> <<>>, week |-> 0, status |-> "",
   courses |-> <<>>]

\* lines 141-161: the error returns
ErrorSchedule == [NoSchedule EXCEPT !.keys = {"error"}]

\* lines 175-182 and 185-192
PhaseSchedule(day, week, status) ==
  [keys |-> {"semester_name", "date", "day", "week", "status", "message"},
   date |-> StrftimeDate(day), day |-> DayName(day), week |-> week,
   status |-> status, courses |-> <<>>]

\* lines 232-239
ActiveSchedule(day, week, daily_courses) ==
  [keys |-> {"semester_name", "date", "day", "week", "status", "courses"},
   date |-> StrftimeDate(day), day |-> DayName(day), week |-> week,
   status |-> "active", courses |-> daily_courses]

(***************************************************************************)
(* format_schedule_message, lines 241-288.                                 *)
(***************************************************************************)
\* the local `content` is first touched at line 255 by `content +=`; no line
\* before it binds the name
ContentBoundBeforeLine255 == FALSE

\* "message" (a (title, content) pair is returned) or "UnboundLocalError"
FormatScheduleMessage(schedule, weather) ==
  IF "error" \in schedule.keys THEN "message"              \* lines 245-246
  ELSE IF ~ContentBoundBeforeLine255 THEN "UnboundLocalError"  \* line 255
  ELSE "message"                                           \* lines 262-288

(***************************************************************************)
(* Bounds and inputs.                                                      *)
(***************************************************************************)
MaxWeeksLen == 5    \* longest enumerated weeks string
MaxCourses == 2     \* longest course list of timetable.json
MaxDays == 14       \* days of the clock window after FirstDay
MaxTicks == 1       \* midnights that pass between the two date reads of a run

WeekAlphabet == {"1", "2", "-", ",", " ", "zhou", "(", ")"}

StringsUpTo(n, alphabet) == UNION {[1..k -> alphabet] : k \in 0..n}

\* the examples of the specification, written out
SpecWeekExamples ==
  { <<"1", "-", "3", ",", "5">>,
    <<>>,
    <<"a", "b", "c">>,
    <<"1", "-", "8", "zhou", ",", "1", "0", "zhou">>,
    <<"1", "-", "8", ",", "1", "0", ",", "1", "2", "-", "1", "6", "zhou">>,
    <<"1", "-", "8", "(", "zhou", ")">>,
    <<"x", ",", "2", "-", "4", ",", "7", "-", ",", "9">> }

WeekInputs == StringsUpTo(MaxWeeksLen, WeekAlphabet) \cup SpecWeekExamples

FirstDay == ToOrdinal(2024, 12, 28)
LastDay == FirstDay + MaxDays

D_2024_12_30 == <<"2", "0", "2", "4", "-", "1", "2", "-", "3", "0">>  \* a Monday
D_2025_1_6   == <<"2", "0", "2", "5", "-", "1", "-", "6">>            \* a Monday
D_2025_01_10 == <<"2", "0", "2", "5", "-", "0", "1", "-", "1", "0">>
D_2024_12_28 == <<"2", "0", "2", "4", "-", "1", "2", "-", "2", "8">>
D_2025_02_30 == <<"2", "0", "2", "5", "-", "0", "2", "-", "3", "0">>  \* no such day
D_2024_13_01 == <<"2", "0", "2", "4", "-", "1", "3", "-", "0", "1">>  \* no such month
D_slashes    == <<"2", "0", "2", "4", "/", "1", "2", "/", "3", "0">>

Semester(s, e) == [start_date |-> s, end_date |-> e]

\* semester_info whose dates pass lines 154-161
GoodSemesters ==
  {Semester(Str(D_2024_12_30), e) :
     e \in {Missing, Null, Str(<<>>), Str(D_2025_01_10), Str(D_2024_12_30),
            Str(D_2024_12_28)}}
  \cup {Semester(Str(D_2025_1_6), e) : e \in {Missing, Str(D_2024_12_30)}}

\* semester_info that lines 154-161 do not let through
BadSemesters ==
  {Semester(s, e) :
     s \in {Missing, Null, Str(<<>>), Str(D_2024_13_01), Str(D_slashes), Number},
     e \in {Missing, Str(D_2025_01_10)}}
  \cup {Semester(Str(D_2024_12_30), e) : e \in {Str(D_2025_02_30), Str(D_slashes), Number}}

Monday  == Str(<<"zhou", "yi">>)
Tuesday == Str(<<"zhou", "er">>)

W_1_8 == Str(<<"1", "-", "8", "zhou">>)
W_1_3 == Str(<<"1", ",", "3", "(", "zhou", ")">>)
W_bad == Str(<<"a", "-", "8", "zhou">>)

T_0800 == Str(<<"0", "8", ":", "0", "0", "-", "0", "9", ":", "4", "0">>)
T_1400 == Str(<<"1", "4", ":", "0", "0", "-", "1", "5", ":", "4", "0">>)
T_2359 == Str(<<"2", "3", ":", "5", "9", "-", "2", "3", ":", "5", "9">>)
T_0000 == Str(<<" ", "0", ":", "0", "0", " ", "-", "0", ":", "4", "5">>)
T_bad  == Str(<<"t", "b", "d">>)

Course(n, d, w, t) == [name |-> n, day |-> d, weeks |-> w, time |-> t]

CoursePool ==
  { Course("math", Monday, W_1_8, T_1400),
    Course("physics", Monday, W_1_3, T_0800),
    Course("night", Monday, W_1_8, T_2359),
    Course("early", Monday, W_1_8, T_0000),
    Course("seminar", Monday, W_1_8, T_bad),
    Course("lab", Monday, W_1_8, Missing),
    Course("art", Tuesday, W_1_8, T_0800),
    Course("pe", Monday, W_bad, T_0800),
    Course("club", Monday, Missing, Null),
    Course("nullweeks", Monday, Null, T_0800),
    Course("numtime", Monday, W_1_8, Number) }

CourseLists == UNION {[1..k -> CoursePool] : k \in 0..MaxCourses}

Timetable(f, info, cs) == [file |-> f, semester_info |-> info, courses |-> cs]

\* timetable.json as main finds it
Timetables ==
  {Timetable(f, Semester(Missing, Missing), <<>>) : f \in {"not_found", "bad_json"}}
  \cup {Timetable("ok", info, <<Course("math", Monday, W_1_8, T_1400)>>) :
          info \in BadSemesters}
  \cup {Timetable("ok", info, cs) : info \in GoodSemesters, cs \in CourseLists}

(***************************************************************************)
(* State.                                                                  *)
(***************************************************************************)
VARIABLES
  token_set,      \* PUSHPLUS_TOKEN is set and is not the placeholder
  timetable,      \* the content of timetable.json
  clock,          \* the system date, as date.today() would return it
  ticks,          \* midnights passed during this run
  pc,             \* where main is
  today,          \* get_daily_schedule's local, line 163
  week_today,     \* get_current_week's local, line 124
  current_week,   \* get_daily_schedule's local, line 164
  schedule_data,  \* main's local, line 336
  weather_data,   \* main's local, line 340
  exc,            \* the exception that ended the run, "" if none
  pushes,         \* calls of send_pushplus_message
  run,            \* 1 for the first run of the script, 2 for the next
  prev_schedule,  \* what get_daily_schedule returned in the run before
  weeks_in,       \* a weeks string given to the week parser
  active_weeks,   \* the list built from it
  parsed

mvars ==
  <<token_set, timetable, clock, ticks, pc, today, week_today, current_week,
    schedule_data, weather_data, exc, pushes, run, prev_schedule>>

pvars == <<weeks_in, active_weeks, parsed>>

vars == <<mvars, pvars>>

semester_info == timetable.semester_info
courses == timetable.courses

Locals0 ==
  /\ ticks = 0
  /\ pc = "main"
  /\ today = 0
  /\ week_today = 0
  /\ current_week = 0
  /\ schedule_data = NoSchedule
  /\ weather_data = "none"
  /\ exc = ""
  /\ pushes = 0

Init ==
  /\ token_set \in BOOLEAN
  /\ timetable \in Timetables
  /\ clock \in FirstDay..LastDay
  /\ Locals0
  /\ run = 1
  /\ prev_schedule = NoSchedule
  /\ weeks_in = <<>> /\ active_weeks = <<>> /\ parsed = FALSE

(***************************************************************************)
(* main, lines 320-352, and the functions it calls.                        *)
(***************************************************************************)
\* lines 329-332
CheckToken ==
  /\ pc = "main"
  /\ pc' = IF token_set THEN "load" ELSE "exit"
  /\ UNCHANGED <<token_set, timetable, clock, ticks, today, week_today,
                 current_week, schedule_data, weather_data, exc, pushes, run,
                 prev_schedule, pvars>>

\* get_daily_schedule, lines 137-163: load, check the dates, read the date
LoadTimetable ==
  /\ pc = "load"
  /\ LET dates == CheckDates(GetOrNone(semester_info.start_date),
                             GetOrNone(semester_info.end_date))
     IN  IF timetable.file # "ok" \/ dates = "error"
         THEN /\ schedule_data' = ErrorSchedule
              /\ pc' = "weather"
              /\ UNCHANGED <<today, exc>>
         ELSE IF dates = "TypeError"
         THEN /\ exc' = "TypeError"
              /\ pc' = "crashed"
              /\ UNCHANGED <<today, schedule_data>>
         ELSE /\ today' = clock
              /\ pc' = "week"
              /\ UNCHANGED <<schedule_data, exc>>
  /\ UNCHANGED <<token_set, timetable, clock, ticks, week_today, current_week,
                 weather_data, pushes, run, prev_schedule, pvars>>

\* line 164 and get_current_week, lines 118-131
CallGetCurrentWeek ==
  /\ pc = "week"
  /\ week_today' = clock
  /\ current_week' = GetCurrentWeek(semester_info.start_date.s, clock)
  /\ pc' = "resolve"
  /\ UNCHANGED <<token_set, timetable, clock, ticks, today, schedule_data,
                 weather_data, exc, pushes, run, prev_schedule, pvars>>

\* get_daily_schedule, lines 166-239
Resolve ==
  /\ pc = "resolve"
  /\ LET status == SemesterStatus(today, SemesterStartDate(semester_info),
                                  SemesterEndDate(semester_info))
         today_day_name == DayName(today)
         daily_courses == DailyCourses(courses, today_day_name, current_week)
     IN  IF status # "active"
         THEN /\ schedule_data' = PhaseSchedule(today, current_week, status)
              /\ pc' = "weather"
              /\ UNCHANGED exc
         ELSE IF LoopRaises(courses, today_day_name)
                 \/ SortRaises(daily_courses)
         THEN /\ exc' = "AttributeError"
              /\ pc' = "crashed"
              /\ UNCHANGED schedule_data
         ELSE /\ schedule_data' =
                   ActiveSchedule(today, current_week, SortByStartTime(daily_courses))
              /\ pc' = "weather"
              /\ UNCHANGED exc
  /\ UNCHANGED <<token_set, timetable, clock, ticks, today, week_today,
                 current_week, weather_data, pushes, run, prev_schedule, pvars>>

\* line 340 and get_weather_info, lines 15-48: every path returns a dict,
\* with "success" or with "error"
GetWeatherInfo ==
  /\ pc = "weather"
  /\ weather_data' \in {"success", "error"}
  /\ pc' = "format"
  /\ UNCHANGED <<token_set, timetable, clock, ticks, today, week_today,
                 current_week, schedule_data, exc, pushes, run, prev_schedule,
                 pvars>>

\* line 343
FormatMessage ==
  /\ pc = "format"
  /\ LET r == FormatScheduleMessage(schedule_data, weather_data)
     IN  IF r = "message"
         THEN pc' = "send" /\ UNCHANGED exc
         ELSE pc' = "crashed" /\ exc' = r
  /\ UNCHANGED <<token_set, timetable, clock, ticks, today, week_today,
                 current_week, schedule_data, weather_data, pushes, run,
                 prev_schedule, pvars>>

\* lines 347-352 and send_pushplus_message, lines 290-318: it returns True or
\* False and main ends either way
SendPushplusMessage ==
  /\ pc = "send"
  /\ pushes' = pushes + 1
  /\ pc' = "exit"
  /\ UNCHANGED <<token_set, timetable, clock, ticks, today, week_today,
                 current_week, schedule_data, weather_data, exc, run,
                 prev_schedule, pvars>>

\* midnight passes between the date read of line 163 and that of line 124;
\* a midnight at any other point of a run is a run begun on another day, or
\* comes after the last read of the clock
Tick ==
  /\ pc = "week"
  /\ ticks < MaxTicks
  /\ clock < LastDay
  /\ clock' = clock + 1
  /\ ticks' = ticks + 1
  /\ UNCHANGED <<token_set, timetable, pc, today, week_today, current_week,
                 schedule_data, weather_data, exc, pushes, run, prev_schedule,
                 pvars>>

Next ==
  \/ CheckToken
  \/ LoadTimetable
  \/ CallGetCurrentWeek
  \/ Resolve
  \/ GetWeatherInfo
  \/ FormatMessage
  \/ SendPushplusMessage
  \/ Tick

Spec == Init /\ [][Next]_vars

Finished == pc \in {"exit", "crashed"}

\* get_daily_schedule has returned a dict
Returned == schedule_data.keys # {}

HasStatus == "status" \in schedule_data.keys

(***************************************************************************)
(* The week parser on its own: one weeks string, parsed once.              *)
(***************************************************************************)
InitParse ==
  /\ weeks_in \in WeekInputs
  /\ active_weeks = <<>>
  /\ parsed = FALSE
  /\ token_set = FALSE
  /\ timetable = Timetable("ok", Semester(Str(D_2024_12_30), Missing), <<>>)
  /\ clock = FirstDay
  /\ Locals0
  /\ run = 1
  /\ prev_schedule = NoSchedule

\* the body of the course loop for one weeks string, lines 198-216
ParseWeeks ==
  /\ ~parsed
  /\ active_weeks' = ActiveWeeks(weeks_in)
  /\ parsed' = TRUE
  /\ UNCHANGED <<weeks_in, mvars>>

NextParse == ParseWeeks

SpecParse == InitParse /\ [][NextParse]_vars

(***************************************************************************)
(* The script run twice on the same timetable.json (lines 354-355 run main *)
(* once per invocation of the script).                                     *)
(***************************************************************************)
RerunTimetables ==
  {Timetable("ok", info, cs) :
     info \in {Semester(Str(D_2024_12_30), Str(D_2025_01_10)),
               Semester(Str(D_2024_13_01), Missing)},
     cs \in {<<>>, <<Course("math", Monday, W_1_8, T_1400)>>}}

InitRerun ==
  /\ token_set = TRUE
  /\ timetable \in RerunTimetables
  /\ clock \in FirstDay..LastDay
  /\ Locals0
  /\ run = 1
  /\ prev_schedule = NoSchedule
  /\ weeks_in = <<>> /\ active_weeks = <<>> /\ parsed = FALSE

\* the script is started again, later, with the same file
RunAgain ==
  /\ Finished
  /\ run = 1
  /\ run' = 2
  /\ prev_schedule' = schedule_data
  /\ clock' \in clock..LastDay
  /\ ticks' = 0
  /\ pc' = "main"
  /\ today' = 0
  /\ week_today' = 0
  /\ current_week' = 0
  /\ schedule_data' = NoSchedule
  /\ weather_data' = "none"
  /\ exc' = ""
  /\ pushes' = 0
  /\ UNCHANGED <<token_set, timetable, pvars>>

NextRerun == Next \/ RunAgain

SpecRerun == InitRerun /\ [][NextRerun]_vars

(***************************************************************************)
(* Vocabulary of the properties.                                           *)
(***************************************************************************)
\* the date a JSON value denotes, if it is a YYYY-MM-DD string
DateOf(v) ==
  IF v.t # "str" THEN NoDate
  ELSE LET r == StrptimeDate(v.s) IN IF r.ok THEN ADate(r.v) ELSE NoDate

StartDate == DateOf(semester_info.start_date).v
EndDate == DateOf(semester_info.end_date)

\* the date the result reports, read back from its date field
ReportedDate == StrptimeDate(schedule_data.date).v

IsActive == HasStatus /\ schedule_data.status = "active"

Count(list, c) == Cardinality({i \in 1..Len(list) : list[i] = c})

(***************************************************************************)
(* C5                                                                      *)
(***************************************************************************)
\* an unsigned decimal literal, optionally surrounded by whitespace
IsWeekNumber(tok) ==
  LET t == Strip(tok) IN Len(t) > 0 /\ Chars(t) \subseteq Digits

RECURSIVE Pow10(_)
Pow10(k) == IF k = 0 THEN 1 ELSE 10 * Pow10(k - 1)

RECURSIVE PlaceSum(_, _)
PlaceSum(t, i) ==
  IF i > Len(t) THEN 0
  ELSE DigitVal(t[i]) * Pow10(Len(t) - i) + PlaceSum(t, i + 1)

WeekNumber(tok) == PlaceSum(Strip(tok), 1)

\* the set one token stands for: [lo, hi] for "lo-hi", {n} for "n", else {}
TokenWeeks(tok) ==
  LET dashes == {i \in 1..Len(tok) : tok[i] = "-"}
  IN  IF Cardinality(dashes) = 1
      THEN LET i  == CHOOSE d \in dashes : TRUE
               lo == Slice(tok, 1, i - 1)
               hi == Slice(tok, i + 1, Len(tok))
           IN  IF IsWeekNumber(lo) /\ IsWeekNumber(hi)
               THEN {w \in 0..WeekNumber(hi) : w >= WeekNumber(lo)}
               ELSE {}
      ELSE IF dashes = {} /\ IsWeekNumber(tok) THEN {WeekNumber(tok)}
      ELSE {}

\* the comma-separated tokens of a cleaned weeks string, as index intervals
TokenBounds(s) ==
  LET commas == {i \in 1..Len(s) : s[i] = ","}
      cuts   == commas \cup {0, Len(s) + 1}
  IN  {<<a, b>> \in cuts \X cuts :
         a < b /\ \A c \in commas : ~(a < c /\ c < b)}

ExpectedWeeks(raw) ==
  LET s == CleanWeeks(raw)
  IN  UNION {TokenWeeks(Slice(s, ab[1] + 1, ab[2] - 1)) : ab \in TokenBounds(s)}

\* C5: the parsed active weeks of a weeks string are the union over its
\* comma-separated tokens of [lo, hi] for "lo-hi" and {n} for "n"; malformed
\* tokens contribute nothing, "" and "abc" give the empty set and "1-3,5"
\* gives {1,2,3,5}.
C5_ActiveWeeksAreUnionOfTokens ==
  parsed =>
    /\ Chars(active_weeks) = ExpectedWeeks(weeks_in)
    /\ (weeks_in = <<"1", "-", "3", ",", "5">> => Chars(active_weeks) = {1, 2, 3, 5})
    /\ (weeks_in \in {<<>>, <<"a", "b", "c">>} => Chars(active_weeks) = {})

\* a mixed string was parsed: a range, a single week and a malformed token
C5_Witness ==
  /\ parsed
  /\ weeks_in = <<"x", ",", "2", "-", "4", ",", "7", "-", ",", "9">>
  /\ Chars(active_weeks) = {2, 3, 4, 9}

(***************************************************************************)
(* C1                                                                      *)
(***************************************************************************)
FirstMatchWins(day, start, end) ==
  /\ schedule_data.status = "not_started" <=> day < start
  /\ schedule_data.status = "ended" <=>
       (day >= start /\ end.present /\ day > end.v)
  /\ schedule_data.status = "active" <=>
       (day >= start /\ ~(end.present /\ day > end.v))

\* C1 as stated: the status is decided not_started, then ended, then active;
\* so today = start_date is active, today = end_date is active, a semester
\* without end_date is never ended, and with end_date before start_date a
\* day before start_date is not_started.
C1_AsStated ==
  HasStatus =>
    LET start == StartDate
        end   == EndDate
    IN  /\ FirstMatchWins(today, start, end)
        /\ (today = start => schedule_data.status = "active")
        /\ (end.present /\ today = end.v => schedule_data.status = "active")
        /\ (~end.present => schedule_data.status # "ended")
        /\ (end.present /\ end.v < start /\ today < start
              => schedule_data.status = "not_started")

\* C1 (amended): the status is decided not_started, then ended, then active;
\* so today = start_date is active unless end_date lies before start_date
\* (then it is ended), today = end_date is active unless end_date lies before
\* start_date (then it is not_started), a semester without end_date is never
\* ended, and with end_date before start_date a day before start_date is
\* not_started.
C1_StatusOrder ==
  HasStatus =>
    LET start == StartDate
        end   == EndDate
    IN  /\ FirstMatchWins(today, start, end)
        /\ (today = start =>
              schedule_data.status =
                IF end.present /\ end.v < start THEN "ended" ELSE "active")
        /\ (end.present /\ today = end.v =>
              schedule_data.status =
                IF end.v < start THEN "not_started" ELSE "active")
        /\ (~end.present => schedule_data.status # "ended")
        /\ (end.present /\ end.v < start /\ today < start
              => schedule_data.status = "not_started")

\* a day after end_date and before start_date was resolved
C1_Witness ==
  /\ HasStatus
  /\ LET start == StartDate
         end   == EndDate
     IN  end.present /\ end.v < today /\ today < start
  /\ schedule_data.status = "not_started"

(***************************************************************************)
(* C2                                                                      *)
(***************************************************************************)
WeekComputed == pc \in {"resolve", "weather", "format", "send", "exit", "crashed"}
                  /\ week_today # 0

\* C2: get_current_week returns 0 before start_date and floor(days / 7) + 1
\* from start_date on: 1 on start_date, k + 1 on the days start_date + 7k to
\* start_date + 7k + 6, and on the day after the week is the same or one
\* more, one more exactly when that day is a day start_date + 7k.
C2_CurrentWeek ==
  WeekComputed =>
    LET start == StartDate
    IN  /\ (week_today < start => current_week = 0)
        /\ (week_today = start => current_week = 1)
        /\ (week_today >= start =>
              \E k \in 0..MaxDays :
                /\ start + 7 * k <= week_today
                /\ week_today <= start + 7 * k + 6
                /\ current_week = k + 1)
        /\ GetCurrentWeek(semester_info.start_date.s, week_today + 1) =
             IF week_today + 1 >= start /\ (week_today + 1 - start) % 7 = 0
             THEN current_week + 1 ELSE current_week

\* the first day of the second week was resolved
C2_Witness ==
  /\ WeekComputed
  /\ week_today = StartDate + 7
  /\ current_week = 2

(***************************************************************************)
(* C3                                                                      *)
(***************************************************************************)
\* the course is due on the day and in the week that the result reports
Due(c) ==
  /\ c.day = Str(schedule_data.day)
  /\ c.weeks.t = "str"
  /\ schedule_data.week \in ExpectedWeeks(c.weeks.s)

\* C3: an active result holds exactly the input courses whose day is today's
\* day label and whose active-week set contains the current week, each as
\* often as the input has it and unaltered.
C3_ExactlyTheDueCourses ==
  IsActive =>
    \A c \in Chars(courses) \cup Chars(schedule_data.courses) :
      Count(schedule_data.courses, c) = IF Due(c) THEN Count(courses, c) ELSE 0

\* a Monday of week 2: one course is due, one is out of its weeks, and the
\* result holds the due one
C3_Witness ==
  /\ IsActive
  /\ schedule_data.week = 2
  /\ courses = <<Course("physics", Monday, W_1_3, T_0800),
                 Course("math", Monday, W_1_8, T_1400)>>
  /\ schedule_data.courses = <<Course("math", Monday, W_1_8, T_1400)>>

(***************************************************************************)
(* C4                                                                      *)
(***************************************************************************)
\* the start time a course states, if its time has a parseable HH:MM start
StatedStart(c) ==
  IF c.time.t # "str" THEN Bad
  ELSE StrptimeTime(Strip(Split(c.time.s, "-")[1]))

\* C4: in an active result the courses ascend by start time and every course
\* whose time is missing or unparseable comes after every course whose time
\* is parseable.
C4_SortedUnparseableLast ==
  IsActive =>
    \A i, j \in 1..Len(schedule_data.courses) :
      i < j =>
        LET a == StatedStart(schedule_data.courses[i])
            b == StatedStart(schedule_data.courses[j])
        IN  /\ (a.ok /\ b.ok => a.v <= b.v)
            /\ ~(~a.ok /\ b.ok)

(***************************************************************************)
(* C6                                                                      *)
(***************************************************************************)
\* C6: a result whose date is before start_date has week 0 and status
\* not_started, and the week of every result is the week number of its date.
C6_WeekOfReportedDate ==
  HasStatus =>
    LET start == StartDate
        date  == ReportedDate
    IN  /\ (date < start =>
              schedule_data.week = 0 /\ schedule_data.status = "not_started")
        /\ schedule_data.week =
             IF date < start THEN 0 ELSE ((date - start) \div 7) + 1

(***************************************************************************)
(* C7                                                                      *)
(***************************************************************************)
WellFormed(c) ==
  c.day.t = "str" /\ c.weeks.t = "str" /\ c.time.t = "str"

\* get_daily_schedule has ended, with a dict or with an exception
ResolutionEnded == Returned \/ exc \in {"TypeError", "AttributeError"}

\* C7: in an active semester get_daily_schedule returns an active result
\* whatever one record's weeks or time is, and the result holds every
\* well-formed course that is due today.
C7_BadRecordNeverBlocks ==
  (ResolutionEnded /\ today # 0
     /\ LET start == StartDate
            end   == EndDate
        IN  today >= start /\ ~(end.present /\ today > end.v))
  => /\ IsActive
     /\ \A i \in 1..Len(courses) :
          WellFormed(courses[i]) /\ Due(courses[i])
            => Count(schedule_data.courses, courses[i]) > 0

(***************************************************************************)
(* C8                                                                      *)
(***************************************************************************)
\* end_date is given: the key is there and is neither null nor empty
EndGiven ==
  semester_info.end_date.t \notin {"missing", "null"}
    /\ semester_info.end_date # Str(<<>>)

DatesUnusable ==
  ~DateOf(semester_info.start_date).present
    \/ (EndGiven /\ ~EndDate.present)

\* C8: with start_date missing or invalid, or a given end_date invalid,
\* get_daily_schedule returns an error value and nothing else, before the
\* week is computed.
C8_ErrorOnlyBeforeWeek ==
  (timetable.file = "ok" /\ DatesUnusable /\ pc \notin {"main", "load", "exit"})
  => /\ schedule_data = ErrorSchedule
     /\ week_today = 0

(***************************************************************************)
(* C9                                                                      *)
(***************************************************************************)
\* C9: two resolutions of the same semester metadata and course list return
\* the same result, whatever the system clock shows.
C9_SameInputsSameResult ==
  (run = 2 /\ Returned /\ prev_schedule.keys # {})
  => schedule_data = prev_schedule

(***************************************************************************)
(* C10                                                                     *)
(***************************************************************************)
\* C10: a run of main with a token, once get_daily_schedule and
\* get_weather_info have returned, ends with exactly one push, whatever
\* they returned; without a token it pushes nothing.
C10_OnePushPerRun ==
  /\ (Finished /\ token_set /\ Returned /\ weather_data # "none" => pushes = 1)
  /\ (~token_set => pushes = 0)
====
